---- MODULE Spec2Model ----
(***************************************************************************)
(* Model of cloudsmith_metrics_2.py: one run of the script.                *)
(*   __main__ -> get_layer_pulls (fetch_entitlement_keys, then one         *)
(*   fetch_usage_metrics per entitlement and month) -> write_csv.          *)
(* The registry API and the wall clock are the environment.  Every network *)
(* call is one step; the clock may advance between the two reads of        *)
(* datetime.now (get_layer_pulls line 66, write_csv line 126).             *)
(***************************************************************************)
EXTENDS Integers, Sequences, FiniteSets, TLC

VARIABLES API_TOKEN, MONTHS, clock, ticks, pc, exit_code, end_date,
          entitlements, months_list, ei, mi, pulls_data, api, calls,
          output_file

vars == <<API_TOKEN, MONTHS, clock, ticks, pc, exit_code, end_date,
          entitlements, months_list, ei, mi, pulls_data, api, calls,
          output_file>>

\* ---------------------------------------------------------------- bounds
MaxMonths == 2
MaxEnts == 2
MaxTicks == 1

\* ------------------------------------------------------- input domains
Tokens == {"tok-A", "tok-B"}
Credentials == {"", "secret"}
FatalStatuses == {401, 500}
Counts == {1}
MonthCounts == (-1)..MaxMonths

\* --------------------------------------------------- datetime arithmetic
IsLeap(y) == (y % 4 = 0) /\ ((y % 100 # 0) \/ (y % 400 = 0))

DaysInMonth(y, m) ==
  IF m = 2 THEN (IF IsLeap(y) THEN 29 ELSE 28)
  ELSE IF m \in {4, 6, 9, 11} THEN 30 ELSE 31

Date(y, m, d) == [year |-> y, month |-> m, day |-> d]

\* the instants read at line 66: month starts and ends, a year end, a leap day
NowDates ==
  {Date(2023, 3, 1), Date(2023, 3, 2), Date(2023, 7, 31), Date(2023, 8, 31),
   Date(2023, 12, 1), Date(2023, 12, 31), Date(2024, 1, 1), Date(2024, 1, 15),
   Date(2024, 1, 31), Date(2024, 2, 15), Date(2024, 2, 29), Date(2024, 3, 1),
   Date(2024, 3, 2), Date(2024, 3, 31)}

\* date - timedelta(days=n), n >= 0
RECURSIVE MinusDays(_, _)
MinusDays(dt, n) ==
  IF n < dt.day THEN Date(dt.year, dt.month, dt.day - n)
  ELSE LET py == IF dt.month = 1 THEN dt.year - 1 ELSE dt.year
           pm == IF dt.month = 1 THEN 12 ELSE dt.month - 1
       IN MinusDays(Date(py, pm, DaysInMonth(py, pm)), n - dt.day)

\* date + timedelta(days=1)
PlusOneDay(dt) ==
  IF dt.day < DaysInMonth(dt.year, dt.month)
    THEN Date(dt.year, dt.month, dt.day + 1)
  ELSE IF dt.month = 12 THEN Date(dt.year + 1, 1, 1)
  ELSE Date(dt.year, dt.month + 1, 1)

\* strftime("%Y-%m") and strftime("%Y-%m-%d")
StrfYm(dt) == <<dt.year, dt.month>>
StrfYmd(dt) == <<dt.year, dt.month, dt.day>>

\* len(range(n))
RangeLen(n) == IF n > 0 THEN n ELSE 0

Reverse(s) == [k \in 1..Len(s) |-> s[Len(s) + 1 - k]]

\* ------------------------------------------- get_layer_pulls, lines 78-98
FirstDay(now, i) == [MinusDays(now, i * 30) EXCEPT !.day = 1]

LastDay(first_day) ==
  IF first_day.month = 12
    THEN MinusDays(Date(first_day.year + 1, 1, 1), 1)
    ELSE MinusDays(Date(first_day.year, first_day.month + 1, 1), 1)

MonthInfo(now, i) ==
  [key |-> StrfYm(FirstDay(now, i)),
   start |-> StrfYmd(FirstDay(now, i)),
   finish |-> StrfYmd(LastDay(FirstDay(now, i)))]

MonthsList(now, months) ==
  Reverse([k \in 1..RangeLen(months) |-> MonthInfo(now, k - 1)])

\* variant: range(1, months)
CsvMonthsList_FromOne(now, months) ==
  Reverse([k \in 1..RangeLen(months - 1) |->
             StrfYm([MinusDays(now, k * 30) EXCEPT !.day = 1])])

\* ----------------------------------------------- write_csv, lines 128-136
CsvMonthsList(now, months) ==
  Reverse([k \in 1..RangeLen(months) |->
             StrfYm([MinusDays(now, (k - 1) * 30) EXCEPT !.day = 1])])

\* ------------------------------------------------------------ the registry
\* a JSON list of entitlements, each with its slug_perm
EntitlementLists ==
  UNION {[1..k -> [slug_perm : Tokens]] : k \in 0..MaxEnts}

ListResponses ==
  [status : {200}, body : EntitlementLists] \cup
  [status : FatalStatuses \cup {404}, body : {<<>>}]

\* body of a usage answer: the set holding tokens.downloads.total.value,
\* empty when a key on that path is absent
UsageResponses ==
  [status : {200}, body : {{}} \cup {{v} : v \in Counts}] \cup
  [status : FatalStatuses \cup {404}, body : {{}}]

\* variant: only server errors raise
RaiseForStatus_ServerOnly(status) == status >= 500

\* response.raise_for_status(): raises HTTPError on 4xx and 5xx
RaiseForStatus(status) == status >= 400

\* metrics.get("tokens", {}).get("downloads", {}).get("total", {}).get("value", 0)
TotalDownloads(body) == IF body = {} THEN 0 ELSE CHOOSE v \in body : TRUE

\* variant: no special case for 404
FetchUsageMetrics_No404(resp) ==
  IF RaiseForStatus(resp.status) THEN [raised |-> TRUE, value |-> 0]
  ELSE [raised |-> FALSE, value |-> TotalDownloads(resp.body)]

\* fetch_usage_metrics, lines 47-58, applied to the response of requests.get
FetchUsageMetrics(resp) ==
  IF resp.status = 404 THEN [raised |-> FALSE, value |-> 0]
  ELSE IF RaiseForStatus(resp.status) THEN [raised |-> TRUE, value |-> 0]
  ELSE [raised |-> FALSE, value |-> TotalDownloads(resp.body)]

\* ------------------------------------------------------------------- dicts
\* a dict with key k set to v
Put(f, k, v) == [x \in DOMAIN f \cup {k} |-> IF x = k THEN v ELSE f[x]]

\* month_data.get(month, 0)
Get0(f, k) == IF k \in DOMAIN f THEN f[k] ELSE 0

\* pulls_data is a dict in insertion order: a sequence of rows
\* [token, month_data], one per token
HasToken(pd, t) == \E k \in 1..Len(pd) : pd[k].token = t
RowOf(pd, t) == CHOOSE k \in 1..Len(pd) : pd[k].token = t
TokensOf(pd) == {pd[k].token : k \in 1..Len(pd)}
MonthData(pd, t) == pd[RowOf(pd, t)].month_data

\* variant: every token shares one month_data dict
StoreCount_Shared(pd, token, month_key, total_downloads) ==
  LET shared == Put(IF pd = <<>> THEN <<>> ELSE pd[1].month_data,
                    month_key, total_downloads)
      rows == [k \in 1..Len(pd) |-> [pd[k] EXCEPT !.month_data = shared]]
  IN IF HasToken(pd, token) THEN rows
     ELSE Append(rows, [token |-> token, month_data |-> shared])

\* pulls_data[token][month_key] = total_downloads, line 115
StoreCount(pd, token, month_key, total_downloads) ==
  IF HasToken(pd, token)
    THEN [pd EXCEPT ![RowOf(pd, token)].month_data =
                       Put(@, month_key, total_downloads)]
    ELSE Append(pd, [token |-> token,
                     month_data |-> Put(<<>>, month_key, total_downloads)])

\* ------------------------------------------------ write_csv, lines 141-145
CsvHeader(keys) == <<"Entitlement Token">> \o keys

CsvRow(token, month_data, keys) ==
  <<token>> \o [k \in 1..Len(keys) |-> Get0(month_data, keys[k])]

CsvFile(pd, keys) ==
  <<CsvHeader(keys)>> \o
  [k \in 1..Len(pd) |-> CsvRow(pd[k].token, pd[k].month_data, keys)]

\* ----------------------------------------------------------------- state
\* os.getenv: <<>> when the variable is unset, else <<value>>
Getenv == {<<>>} \cup {<<c>> : c \in Credentials}

\* variant: `API_TOKEN is None`
NotApiToken_IsNone(tok) == tok = <<>>

\* `not API_TOKEN`, line 151: None or the empty string
NotApiToken(tok) == tok = <<>> \/ tok[1] = ""

Init ==
  /\ API_TOKEN \in Getenv
  /\ MONTHS \in MonthCounts
  /\ clock \in NowDates
  /\ ticks = 0
  /\ pc = "main"
  /\ exit_code = -1
  /\ end_date = Date(0, 0, 0)
  /\ entitlements = <<>>
  /\ months_list = <<>>
  /\ ei = 0
  /\ mi = 0
  /\ pulls_data = <<>>
  /\ api = <<>>
  /\ calls = <<>>
  /\ output_file = <<>>

\* the two except clauses of __main__, lines 170-177
Abort ==
  /\ pc' = "exit"
  /\ exit_code' = 1

\* lines 151-153, then get_layer_pulls up to the request of line 29
Main ==
  /\ pc = "main"
  /\ IF NotApiToken(API_TOKEN)
       THEN /\ Abort
            /\ UNCHANGED end_date
       ELSE /\ pc' = "list"
            /\ end_date' = clock
            /\ UNCHANGED exit_code
  /\ UNCHANGED <<API_TOKEN, MONTHS, clock, ticks, entitlements, months_list,
                 ei, mi, pulls_data, api, calls, output_file>>

\* the answer to the entitlement listing, lines 29-31 and 72-98
ListEntitlements ==
  /\ pc = "list"
  /\ \E resp \in ListResponses :
       /\ calls' = Append(calls, [kind |-> "list", token |-> "",
                                  key |-> <<0, 0>>, status |-> resp.status])
       /\ IF RaiseForStatus(resp.status)
            THEN /\ Abort
                 /\ UNCHANGED <<entitlements, months_list, ei, mi>>
            ELSE /\ entitlements' = resp.body
                 /\ UNCHANGED exit_code
                 /\ IF resp.body = <<>>
                      THEN /\ pc' = "write"
                           /\ UNCHANGED <<months_list, ei, mi>>
                      ELSE /\ months_list' = MonthsList(end_date, MONTHS)
                           /\ IF months_list' = <<>>
                                THEN /\ pc' = "write"
                                     /\ UNCHANGED <<ei, mi>>
                                ELSE /\ pc' = "fetch"
                                     /\ ei' = 1
                                     /\ mi' = 1
  /\ UNCHANGED <<API_TOKEN, MONTHS, clock, ticks, end_date, pulls_data, api,
                 output_file>>

\* one iteration of the loops of lines 101-117: the answer to one usage query
FetchUsage ==
  /\ pc = "fetch"
  /\ LET token == entitlements[ei].slug_perm
         month_info == months_list[mi]
         query == <<token, month_info.start, month_info.finish>>
     IN \E resp \in UsageResponses :
          /\ query \in DOMAIN api => resp = api[query]
          /\ api' = Put(api, query, resp)
          /\ calls' = Append(calls, [kind |-> "usage", token |-> token,
                                     key |-> month_info.key,
                                     status |-> resp.status])
          /\ LET r == FetchUsageMetrics(resp)
             IN IF r.raised
                  THEN /\ Abort
                       /\ UNCHANGED <<ei, mi, pulls_data>>
                  ELSE /\ pulls_data' =
                            StoreCount(pulls_data, token, month_info.key, r.value)
                       /\ UNCHANGED exit_code
                       /\ IF mi < Len(months_list)
                            THEN /\ mi' = mi + 1
                                 /\ UNCHANGED <<ei, pc>>
                            ELSE IF ei < Len(entitlements)
                              THEN /\ ei' = ei + 1
                                   /\ mi' = 1
                                   /\ UNCHANGED pc
                              ELSE /\ pc' = "write"
                                   /\ UNCHANGED <<ei, mi>>
  /\ UNCHANGED <<API_TOKEN, MONTHS, clock, ticks, end_date, entitlements,
                 months_list, output_file>>

\* a day passes between line 66 and line 126
Tick ==
  /\ pc = "write"
  /\ ticks < MaxTicks
  /\ clock' = PlusOneDay(clock)
  /\ ticks' = ticks + 1
  /\ UNCHANGED <<API_TOKEN, MONTHS, pc, exit_code, end_date, entitlements,
                 months_list, ei, mi, pulls_data, api, calls, output_file>>

\* write_csv, lines 122-147, and the normal end of the script
WriteCsv ==
  /\ pc = "write"
  /\ output_file' = CsvFile(pulls_data, CsvMonthsList(clock, MONTHS))
  /\ pc' = "exit"
  /\ exit_code' = 0
  /\ UNCHANGED <<API_TOKEN, MONTHS, clock, ticks, end_date, entitlements,
                 months_list, ei, mi, pulls_data, api, calls>>

Next == Main \/ ListEntitlements \/ FetchUsage \/ Tick \/ WriteCsv

Spec == Init /\ [][Next]_vars

\* ------------------------------------------------------------- vocabulary
Completed == pc = "exit" /\ exit_code = 0
Returned == pc = "write" \/ Completed
ListBuilt == pc \in {"fetch", "write", "exit"} /\ entitlements # <<>>
UsageCalls == {i \in DOMAIN calls : calls[i].kind = "usage"}
UsageCallsOf(t) == {i \in UsageCalls : calls[i].token = t}
ListedTokens == {entitlements[k].slug_perm : k \in DOMAIN entitlements}
Keys(ml) == [k \in DOMAIN ml |-> ml[k].key]
HeaderKeys == Tail(output_file[1])
DataRows == {k \in 2..Len(output_file) : TRUE}
IsFatal(c) ==
  /\ c.status \notin 200..299
  /\ ~(c.kind = "usage" /\ c.status = 404)
YmdLeq(a, b) ==
  \/ a[1] < b[1]
  \/ a[1] = b[1] /\ a[2] < b[2]
  \/ a[1] = b[1] /\ a[2] = b[2] /\ a[3] <= b[3]
ParseYmd(s) == Date(s[1], s[2], s[3])

\* C1: for N >= 1 the month list of get_layer_pulls has exactly N entries,
\* no two entries share a YYYY-MM key, and the last entry's [start, finish]
\* contains now.
C1_MonthListDistinct ==
  (ListBuilt /\ MONTHS >= 1) =>
    /\ Len(months_list) = MONTHS
    /\ \A a, b \in DOMAIN months_list :
         a # b => months_list[a].key # months_list[b].key
    /\ YmdLeq(months_list[Len(months_list)].start, StrfYmd(end_date))
    /\ YmdLeq(StrfYmd(end_date), months_list[Len(months_list)].finish)

\* C2: the buckets are ascending, non-overlapping and contiguous: the day
\* after bucket[i].finish is bucket[i+1].start.
C2_Contiguous ==
  (ListBuilt /\ MONTHS >= 1) =>
    \A k \in 1..(Len(months_list) - 1) :
      StrfYmd(PlusOneDay(ParseYmd(months_list[k].finish)))
        = months_list[k + 1].start

\* C3: a usage fetch answered 404 yields 0 and does not abort the run; the
\* loops go on over every token and month; a token whose fetches all
\* answered 404 has a CSV row of zeros.
C3_NotFoundIsZero ==
  /\ \A i \in UsageCalls :
       calls[i].status = 404 =>
         /\ ~(i = Len(calls) /\ pc = "exit" /\ exit_code = 1)
         /\ HasToken(pulls_data, calls[i].token)
         /\ calls[i].key \in DOMAIN MonthData(pulls_data, calls[i].token)
         /\ MonthData(pulls_data, calls[i].token)[calls[i].key] = 0
  /\ pc = "fetch" =>
       Cardinality(UsageCalls) = (ei - 1) * Len(months_list) + (mi - 1)
  /\ Returned =>
       Cardinality(UsageCalls) = Len(entitlements) * Len(months_list)
  /\ Completed =>
       \A t \in ListedTokens :
         (/\ UsageCallsOf(t) # {}
          /\ \A i \in UsageCallsOf(t) : calls[i].status = 404)
         => \E r \in DataRows :
              /\ output_file[r][1] = t
              /\ \A j \in 2..Len(output_file[r]) : output_file[r][j] = 0

C3_Witness ==
  /\ Completed
  /\ Len(output_file) = 3
  /\ Len(output_file[2]) = 3
  /\ \E t \in ListedTokens :
       /\ UsageCallsOf(t) # {}
       /\ \A i \in UsageCallsOf(t) : calls[i].status = 404
       /\ \E i \in UsageCallsOf(t) : \E j \in UsageCalls :
            j > i /\ calls[j].status = 200 /\ calls[j].token # t

C5_EveryCell ==
  (Completed /\ MONTHS >= 1) =>
    \A t \in ListedTokens :
      \E r \in DataRows :
        /\ output_file[r][1] = t
        /\ \A j \in 2..Len(output_file[r]) : output_file[r][j] \in Nat
        /\ \A b \in DOMAIN months_list :
             \E j \in DOMAIN HeaderKeys :
               /\ HeaderKeys[j] = months_list[b].key
               /\ output_file[r][j + 1] \in Nat

\* C6 as stated: one data row per entitlement of the list (duplicates
\* included) and 1 + N columns in the header and every row.
C6_RowPerEntitlement ==
  (Completed /\ MONTHS >= 1) =>
    /\ Len(output_file) - 1 = Len(entitlements)
    /\ \A r \in DOMAIN output_file : Len(output_file[r]) = 1 + MONTHS

\* C6 amended: one data row per distinct token of the list and 1 + N columns
\* in the header and every row.
C6_RowPerToken ==
  (Completed /\ MONTHS >= 1) =>
    /\ Len(output_file) - 1 = Cardinality(ListedTokens)
    /\ \A t \in ListedTokens :
         Cardinality({r \in DataRows : output_file[r][1] = t}) = 1
    /\ \A r \in DataRows : output_file[r][1] \in ListedTokens
    /\ \A r \in DOMAIN output_file : Len(output_file[r]) = 1 + MONTHS

C6_Witness ==
  /\ Completed
  /\ MONTHS >= 2
  /\ Len(entitlements) = 2
  /\ entitlements[1] = entitlements[2]
  /\ Len(output_file) = 2

\* C7: with API_TOKEN unset or empty the program exits with status 1 before
\* any network call and without writing the output file.
C7_NoCredential ==
  (API_TOKEN = <<>> \/ API_TOKEN = <<"">>) =>
    /\ calls = <<>>
    /\ output_file = <<>>
    /\ pc \in {"main", "exit"}
    /\ pc = "exit" => exit_code = 1

C7_Witness == API_TOKEN = <<"">> /\ pc = "exit" /\ exit_code = 1

\* C8: with N <= 0 bucketing fails: no empty bucket list is returned, no
\* usage fetch is made and no CSV is written.
C8_InvalidArgument ==
  MONTHS <= 0 =>
    /\ UsageCalls = {}
    /\ output_file = <<>>
    /\ ~Completed

\* ---------------------------------- the loops of lines 101-115 as a function
RECURSIVE LayerPullsLoop(_, _, _, _, _, _)
LayerPullsLoop(pd, ents, ml, e, m, responses) ==
  IF e > Len(ents) THEN pd
  ELSE IF m > Len(ml) THEN LayerPullsLoop(pd, ents, ml, e + 1, 1, responses)
  ELSE LET token == ents[e].slug_perm
           query == <<token, ml[m].start, ml[m].finish>>
           total_downloads == FetchUsageMetrics(responses[query]).value
       IN LayerPullsLoop(StoreCount(pd, token, ml[m].key, total_downloads),
                         ents, ml, e, m + 1, responses)

AsMapping(pd) == [t \in TokensOf(pd) |-> MonthData(pd, t)]
Permuted(s) == {[k \in DOMAIN s |-> s[f[k]]] : f \in Permutations(DOMAIN s)}

\* C9: with the same answer for each (token, start, finish) query, the
\* token -> month -> count mapping of get_layer_pulls is the same for every
\* permutation of the entitlement list.
C9_OrderIndependent ==
  Returned =>
    \A p \in Permuted(entitlements) :
      AsMapping(LayerPullsLoop(<<>>, p, months_list, 1, 1, api))
        = AsMapping(pulls_data)

C9_Witness ==
  /\ Returned
  /\ Len(pulls_data) = 2
  /\ MONTHS >= 1
  /\ pulls_data[1].month_data # pulls_data[2].month_data

\* C10: the header month keys of write_csv are exactly the month keys under
\* which get_layer_pulls stored counts, and every stored count is in the CSV
\* under its month, whatever time passes between the two clock reads.
C10_SameKeys ==
  (Completed /\ pulls_data # <<>>) =>
    \A k \in DOMAIN pulls_data :
      /\ {HeaderKeys[j] : j \in DOMAIN HeaderKeys}
           = DOMAIN pulls_data[k].month_data
      /\ \A key \in DOMAIN pulls_data[k].month_data :
           \E j \in DOMAIN HeaderKeys :
             /\ HeaderKeys[j] = key
             /\ output_file[k + 1][j + 1] = pulls_data[k].month_data[key]
====
